---- MODULE Spec2Model ----
(***************************************************************************)
(* Model of the decision logic of the chatbot test harness:                *)
(*   - SelectorManager (src/src/config/config_selectors.js): selector      *)
(*     resolution with fallbacks;                                          *)
(*   - IssueAnalyzer (src/src/utils/issue_analyzer.js): classification,    *)
(*     prioritisation and summary of issues.                               *)
(***************************************************************************)
EXTENDS Integers, Sequences, FiniteSets, TLC

VARIABLES
    discoveredSelectors,  \* SelectorManager.discoveredSelectors (Map key -> selector)
    selCall,              \* the last getSelector call: arguments, probes made, outcome
    issues,               \* IssueAnalyzer.issues
    now,                  \* the clock read by Date.now()
    ret,                  \* the last IssueAnalyzer call and what it returned or threw
    testRun,              \* the basic-functionality test that is running and where it is
    stack,                \* the JavaScript call stack of a running summary call
    outcome,              \* how the running summary call ended
    prIssue,              \* the argument of a calculateBusinessPriority call
    prResult,             \* the value that call returned
    page,                 \* what the page answers to ChatbotHelper's open indicators
    chat,                 \* the running or last openChatbot / closeChatbot call
    metrics,              \* the k6 metrics: the script's custom ones and http_reqs
    response,             \* the response of the last http.post of the load script
    conv                  \* the running or last simulateConversation call

vars == <<discoveredSelectors, selCall, issues, now, ret, testRun, stack, outcome, prIssue, prResult,
          page, chat, metrics, response, conv>>

selVars == <<discoveredSelectors, selCall>>
issueVars == <<issues, now, ret>>
testVars == <<testRun>>
sumVars == <<stack, outcome>>
prVars == <<prIssue, prResult>>
chatVars == <<page, chat>>
k6Vars == <<metrics, response, conv>>

(***************************************************************************)
(* JavaScript values                                                       *)
(***************************************************************************)
\* the value of a property that is not there
undefined == "<undefined>"

\* a property every object literal inherits from Object.prototype: a lookup
\* obj[key] with such a key yields a function although key is no entry of obj
ObjectPrototypeKeys == {"constructor", "toString", "valueOf", "hasOwnProperty"}
InheritedFunction == "<function>"

\* obj[key] on an object literal
Lookup(obj, key) ==
    IF key \in DOMAIN obj THEN obj[key]
    ELSE IF key \in ObjectPrototypeKeys THEN InheritedFunction
    ELSE undefined

\* JavaScript truthiness of a looked-up value (the empty string is falsy)
Truthy(v) == v # undefined /\ v # ""

(***************************************************************************)
(* Selector tables                                                         *)
(***************************************************************************)
HUBSPOT_SELECTORS ==
    [ widget |->
        [ container |-> "[data-test-id=\"chat-widget\"]",
          launcher  |-> "[data-test-id=\"chat-launcher\"]",
          iframe    |-> "iframe[title*=\"chat\"]",
          minimized |-> "[data-test-id=\"chat-widget-minimized\"]",
          expanded  |-> "[data-test-id=\"chat-widget-expanded\"]" ],
      chat |->
        [ container      |-> "[data-test-id=\"chat-container\"]",
          header         |-> "[data-test-id=\"chat-header\"]",
          messagesArea   |-> "[data-test-id=\"chat-messages\"]",
          inputArea      |-> "[data-test-id=\"chat-input-area\"]",
          input          |-> "[data-test-id=\"chat-input\"]",
          sendButton     |-> "[data-test-id=\"chat-send-button\"]",
          closeButton    |-> "[data-test-id=\"chat-close-button\"]",
          minimizeButton |-> "[data-test-id=\"chat-minimize-button\"]" ],
      messages |->
        [ message     |-> "[data-test-id=\"chat-message\"]",
          botMessage  |-> "[data-test-id=\"bot-message\"]",
          userMessage |-> "[data-test-id=\"user-message\"]",
          timestamp   |-> "[data-test-id=\"message-timestamp\"]",
          avatar      |-> "[data-test-id=\"message-avatar\"]",
          content     |-> "[data-test-id=\"message-content\"]",
          typing      |-> "[data-test-id=\"typing-indicator\"]" ],
      interactive |->
        [ quickReplies |-> "[data-test-id=\"quick-replies\"]",
          quickReply   |-> "[data-test-id=\"quick-reply\"]",
          buttons      |-> "[data-test-id=\"chat-button\"]",
          links        |-> "[data-test-id=\"chat-link\"]",
          forms        |-> "[data-test-id=\"chat-form\"]",
          formField    |-> "[data-test-id=\"form-field\"]",
          submitButton |-> "[data-test-id=\"form-submit\"]" ],
      status |->
        [ online     |-> "[data-test-id=\"agent-online\"]",
          offline    |-> "[data-test-id=\"agent-offline\"]",
          typing     |-> "[data-test-id=\"agent-typing\"]",
          connecting |-> "[data-test-id=\"chat-connecting\"]",
          connected  |-> "[data-test-id=\"chat-connected\"]",
          error      |-> "[data-test-id=\"chat-error\"]" ],
      fallback |->
        [ widget      |-> "#hubspot-messages-iframe-container, .widget-container, [class*=\"chat-widget\"]",
          iframe      |-> "iframe[src*=\"hubspot\"], iframe[title*=\"chat\"], iframe[title*=\"Chat\"]",
          input       |-> "input[placeholder*=\"message\"], textarea[placeholder*=\"message\"], [contenteditable=\"true\"]",
          sendButton  |-> "button[type=\"submit\"], button[aria-label*=\"send\"], [data-testid*=\"send\"]",
          messages    |-> "[class*=\"message\"], [class*=\"chat-message\"], [role=\"log\"]",
          botMessage  |-> "[class*=\"bot\"], [class*=\"agent\"], [data-from=\"bot\"]",
          userMessage |-> "[class*=\"user\"], [class*=\"visitor\"], [data-from=\"user\"]" ] ]

ALTERNATIVE_SELECTORS ==
    [ intercom |->
        [ widget   |-> ".intercom-lightweight-app",
          launcher |-> ".intercom-launcher",
          iframe   |-> "#intercom-frame" ],
      drift |->
        [ widget   |-> "#drift-widget",
          launcher |-> ".drift-open-chat",
          iframe   |-> "#drift-frame-chat" ],
      zendesk |->
        [ widget   |-> "#webWidget",
          launcher |-> ".zEWidget-launcher",
          iframe   |-> "iframe[title=\"Widget chat window\"]" ],
      generic |->
        [ widget   |-> "[id*=\"chat\"], [class*=\"chat\"], [data-widget=\"chat\"]",
          iframe   |-> "iframe[src*=\"chat\"], iframe[title*=\"support\"]",
          launcher |-> "[aria-label*=\"chat\"], [title*=\"chat\"], .chat-launcher" ] ]

\* the order in which Object.entries enumerates ALTERNATIVE_SELECTORS: the
\* insertion order of its keys
FrameworkOrder_reordered == <<"generic", "intercom", "drift", "zendesk">>
FrameworkOrder == <<"intercom", "drift", "zendesk", "generic">>

(***************************************************************************)
(* SelectorManager                                                         *)
(***************************************************************************)
\* what the page answers to locator(selector).first().isVisible()
LocatorOutcomes == {"visible", "hidden", "error"}

\* isElementVisible: true when the locator reports visible; a locator error
\* is caught and counts as not visible
isElementVisible_errorCounts(o) == o # "hidden"
isElementVisible(o) == o = "visible"

\* this.primarySelectors[category]?.[element]
primarySelector(category, element) ==
    IF category \in DOMAIN HUBSPOT_SELECTORS
    THEN Lookup(HUBSPOT_SELECTORS[category], element)
    ELSE IF category \in ObjectPrototypeKeys /\ element \in ObjectPrototypeKeys
    THEN InheritedFunction
    ELSE undefined

\* the candidates of getSelector in the order the code reaches them, each with
\* the branch that tries it
Candidates(category, element) ==
    << [source |-> "primary", selector |-> primarySelector(category, element)],
       [source |-> "fallback", selector |-> Lookup(HUBSPOT_SELECTORS.fallback, element)] >>
    \o [i \in 1..Len(FrameworkOrder) |->
          [source |-> FrameworkOrder[i],
           selector |-> Lookup(ALTERNATIVE_SELECTORS[FrameworkOrder[i]], element)]]

\* the isElementVisible calls getSelector makes from candidate i on: falsy
\* candidates are skipped without a call, the first visible one ends the search
RECURSIVE Probe(_, _, _)
Probe(cands, obs, i) ==
    IF i > Len(cands) THEN <<>>
    ELSE IF ~Truthy(cands[i].selector) THEN Probe(cands, obs, i + 1)
    ELSE LET call == [source |-> cands[i].source, selector |-> cands[i].selector,
                      locator |-> obs[i], visible |-> isElementVisible(obs[i])]
         IN IF call.visible THEN <<call>> ELSE <<call>> \o Probe(cands, obs, i + 1)

\* the key under which a discovered selector is stored
SelectorKey(category, element) == category \o "." \o element

EmptyMap == [k \in {} |-> ""]

MapSet(m, k, v) == [x \in (DOMAIN m) \cup {k} |-> IF x = k THEN v ELSE m[x]]

NoCall == [category |-> "", element |-> "", trace |-> <<>>, outcome |-> "none", value |-> undefined]

\* bounds of the selector model
MaxDiscovered == 1
\* the (category, element) arguments drawn: all six candidates defined; no CSS
\* fallback; primary and CSS fallback only; primary only; CSS fallback only; none
SelectorInputs ==
    { <<"widget", "iframe">>, <<"widget", "launcher">>, <<"chat", "input">>,
      <<"chat", "container">>, <<"nocat", "input">>, <<"nocat", "nosuch">> }

\* the answers of the page to the probes of one call: the first visible
\* candidate k (0: none) and the candidates before it whose locator failed
Observations(cands) ==
    LET n == Len(cands)
        real == {i \in 1..n : Truthy(cands[i].selector)}
    IN { [i \in 1..n |-> IF i = k THEN "visible" ELSE IF i \in E THEN "error" ELSE "hidden"] :
           <<k, E>> \in { ke \in (real \cup {0}) \X SUBSET real :
                            \A e \in ke[2] : ke[1] = 0 \/ e < ke[1] } }

\* new SelectorManager()
NewSelectorManager ==
    /\ discoveredSelectors # EmptyMap \/ selCall # NoCall
    /\ discoveredSelectors' = EmptyMap
    /\ selCall' = NoCall
    /\ UNCHANGED <<issueVars, testVars, sumVars, prVars, chatVars, k6Vars>>

\* getSelector(page, category, element); obs is what the page answers for each
\* candidate at the moment it is asked
getSelector(category, element, obs) ==
    LET trace == Probe(Candidates(category, element), obs, 1)
        found == trace # <<>> /\ trace[Len(trace)].visible
        hit == trace[Len(trace)]
    IN /\ IF ~found
          THEN /\ selCall' = [category |-> category, element |-> element, trace |-> trace,
                              outcome |-> "throw",
                              value |-> "No working selector found for " \o SelectorKey(category, element)]
               /\ UNCHANGED discoveredSelectors
          ELSE /\ selCall' = [category |-> category, element |-> element, trace |-> trace,
                              outcome |-> "return", value |-> hit.selector]
               /\ discoveredSelectors' =
                    IF hit.source = "primary" THEN discoveredSelectors
                    ELSE MapSet(discoveredSelectors, SelectorKey(category, element), hit.selector)
       /\ Cardinality(DOMAIN discoveredSelectors') <= MaxDiscovered
       /\ UNCHANGED <<issueVars, testVars, sumVars, prVars, chatVars, k6Vars>>

CallGetSelector ==
    \E input \in SelectorInputs :
      \E obs \in Observations(Candidates(input[1], input[2])) :
        getSelector(input[1], input[2], obs)

\* the state of the parts a specification does not exercise
IdleSelector == discoveredSelectors = EmptyMap /\ selCall = NoCall
IdleAnalyzer == issues = <<>> /\ now = 0 /\ ret = [op |-> "none"]
IdleTests == testRun = [name |-> "none", pc |-> 0]
IdleSummary == stack = <<>> /\ outcome = "none"
IdlePriority == prIssue = [category |-> undefined, severity |-> undefined] /\ prResult = [called |-> FALSE]
IdleChat == page = <<>> /\ chat = [fn |-> "none"]
IdleK6 ==
    /\ metrics = [http_reqs |-> 0, response_time |-> 0, errors |-> [samples |-> 0, ones |-> 0],
                  chatbot_responses |-> 0, timeouts |-> 0]
    /\ response = [status |-> 0]
    /\ conv = [pc |-> "none"]

InitSel == IdleSelector /\ IdleAnalyzer /\ IdleTests /\ IdleSummary /\ IdlePriority /\ IdleChat /\ IdleK6

NextSel == NewSelectorManager \/ CallGetSelector

SpecSel == InitSel /\ [][NextSel]_vars

(***************************************************************************)
(* Claims about SelectorManager (checked under SpecSel)                    *)
(***************************************************************************)
\* the order of the candidates as the specification gives it
C1_Order == <<"primary", "fallback", "intercom", "drift", "zendesk", "generic">>

C1_Pos(source) == CHOOSE p \in 1..Len(C1_Order) : C1_Order[p] = source

\* the table entry a candidate source stands for
C1_Entry(source, category, element) ==
    IF source = "primary" THEN primarySelector(category, element)
    ELSE IF source = "fallback" THEN Lookup(HUBSPOT_SELECTORS.fallback, element)
    ELSE Lookup(ALTERNATIVE_SELECTORS[source], element)

\* every defined candidate up to position p was probed
C1_ProbedUpTo(p) ==
    \A q \in 1..p :
        Truthy(C1_Entry(C1_Order[q], selCall.category, selCall.element))
        => \E i \in 1..Len(selCall.trace) : selCall.trace[i].source = C1_Order[q]

\* C1: getSelector probes the candidates in the order primary, CSS fallback,
\* intercom, drift, zendesk, generic, skipping none that is defined, and
\* returns the first one observed visible: every probe before the returned one
\* was not visible.
C1_FirstVisibleInOrder ==
    selCall.outcome = "return" =>
        LET t == selCall.trace
            n == Len(t)
        IN /\ n >= 1
           /\ \A i \in 1..n :
                t[i].selector = C1_Entry(t[i].source, selCall.category, selCall.element)
           /\ \A i \in 1..(n - 1) : C1_Pos(t[i].source) < C1_Pos(t[i + 1].source)
           /\ C1_ProbedUpTo(C1_Pos(t[n].source))
           /\ \A i \in 1..(n - 1) : t[i].locator # "visible"
           /\ t[n].locator = "visible"
           /\ selCall.value = t[n].selector

\* a call that fell through five invisible candidates to the generic heuristics
C1_Witness ==
    /\ selCall.outcome = "return"
    /\ Len(selCall.trace) = 6
    /\ selCall.trace[6].source = "generic"
    /\ selCall.value = ALTERNATIVE_SELECTORS.generic.iframe

C2_Inv ==
    selCall.outcome # "none" =>
        LET t == selCall.trace
            n == Len(t)
        IN /\ selCall.outcome \in {"return", "throw"}
           /\ (selCall.outcome = "throw") <=> (\A i \in 1..n : t[i].locator # "visible")
           /\ selCall.outcome = "throw" =>
                /\ C1_ProbedUpTo(Len(C1_Order))
                /\ selCall.value = "No working selector found for "
                                     \o selCall.category \o "." \o selCall.element
           /\ \A i \in 1..n :
                /\ t[i].locator \in LocatorOutcomes
                /\ t[i].locator = "error" => t[i].visible = FALSE

\* C2: getSelector throws 'No working selector found for <category>.<element>'
\* exactly when none of its defined candidates was visible; a locator error is
\* a probe that answers not visible, never an exception of the call; a call
\* that throws leaves discoveredSelectors as it was.
C2_ThrowsIffNoneVisible ==
    /\ []C2_Inv
    /\ [][selCall'.outcome = "throw" => discoveredSelectors' = discoveredSelectors]_vars

\* a call on a manager that has discovered a selector throws after a probe
\* whose locator failed
C2_Witness ==
    /\ selCall.outcome = "throw"
    /\ \E i \in 1..Len(selCall.trace) : selCall.trace[i].locator = "error"
    /\ discoveredSelectors # EmptyMap

(***************************************************************************)
(* IssueAnalyzer: tables                                                   *)
(***************************************************************************)
\* a JavaScript number: an integer, or NaN
Num(n) == [nan |-> FALSE, n |-> n]
NaN == [nan |-> TRUE, n |-> 0]

\* this.categories, reduced to the field the code reads (severity)
categories ==
    [ ui_rendering            |-> [severity |-> "critical"],
      core_functionality      |-> [severity |-> "critical"],
      performance_consistency |-> [severity |-> "moderate"],
      response_quality        |-> [severity |-> "moderate"],
      conversation_flow       |-> [severity |-> "moderate"],
      input_validation        |-> [severity |-> "minor"],
      accessibility           |-> [severity |-> "moderate"],
      security                |-> [severity |-> "critical"],
      error_handling          |-> [severity |-> "moderate"],
      integration             |-> [severity |-> "high"],
      mobile_compatibility    |-> [severity |-> "high"],
      browser_compatibility   |-> [severity |-> "moderate"] ]

severityScores == [critical |-> 10, high |-> 7, moderate |-> 4, minor |-> 2]

\* categoryMultipliers, in tenths (1.0 is 10, 0.9 is 9, ...)
categoryMultipliers ==
    [ core_functionality      |-> 10,
      security                |-> 10,
      ui_rendering            |-> 9,
      integration             |-> 8,
      mobile_compatibility    |-> 8,
      response_quality        |-> 7,
      performance_consistency |-> 6,
      accessibility           |-> 5,
      input_validation        |-> 4,
      browser_compatibility   |-> 4,
      conversation_flow       |-> 3,
      error_handling          |-> 3 ]

\* the defaults of calculateBusinessPriority: severityScores[...] || 4 and
\* categoryMultipliers[...] || 0.5 (in tenths)
DefaultBaseScore == 4
DefaultMultiplier == 5

\* Math.round of x tenths: the nearest integer, halves rounded up
MathRound(x) == (x + 5) \div 10

\* calculateBusinessPriority(issue).  A severity or category that is an entry
\* of its table gives the entry; one that names a property inherited from
\* Object.prototype gives a function, which is truthy and makes the product
\* NaN; anything else gives the default.
calculateBusinessPriority(issue) ==
    LET base == Lookup(severityScores, issue.severity)
        mult == Lookup(categoryMultipliers, issue.category)
        baseScore == IF issue.severity \in DOMAIN severityScores THEN base ELSE DefaultBaseScore
        multiplier == IF issue.category \in DOMAIN categoryMultipliers THEN mult ELSE DefaultMultiplier
    IN IF \/ issue.severity \notin DOMAIN severityScores /\ issue.severity \in ObjectPrototypeKeys
          \/ issue.category \notin DOMAIN categoryMultipliers /\ issue.category \in ObjectPrototypeKeys
       THEN NaN
       ELSE Num(MathRound(baseScore * multiplier))

\* issue.severity || this.categories[issue.category]?.severity || 'moderate'
storedSeverity_noTable(issue) ==
    IF Truthy(issue.severity) THEN issue.severity ELSE "moderate"
storedSeverity(issue) ==
    IF Truthy(issue.severity) THEN issue.severity
    ELSE IF issue.category \in DOMAIN categories THEN categories[issue.category].severity
    ELSE "moderate"

\* generateIssueTitle reads issue.category.replace and issue.description.substring:
\* it throws a TypeError when the category or the description is missing
generateIssueTitleThrows(issue) ==
    issue.category = undefined \/ issue.description = undefined

\* generateIssueId: the clock in base 36 and five random base-36 digits
generateIssueId(t, r) == <<t, r>>

\* the object addIssue pushes.  The fields timestamp, title, evidence, impact,
\* recommendation, estimatedFixTime and affectedUserPercentage are copied or
\* looked up from the category and are read by no operation modelled here.
enrichedIssue(issue, id) ==
    [ id |-> id,
      category |-> issue.category,
      severity |-> storedSeverity(issue),
      description |-> issue.description,
      businessPriority |-> calculateBusinessPriority(issue) ]

(***************************************************************************)
(* IssueAnalyzer: operations                                               *)
(***************************************************************************)
\* bounds of the analyzer model
MaxIssues == 3
MaxClock == 1
MaxRandom == 2

RandomSuffixes == 1..MaxRandom

\* an issue as the callers write it
Issue(category, severity) ==
    [category |-> category, severity |-> severity, description |-> "d"]

\* the arguments addIssue is called with: a severity given, known or not; no
\* severity and a category of the table, or not of the table; an empty
\* severity; no category; no description
IssueInputs ==
    { Issue("core_functionality", "critical"),
      Issue("security", "high"),
      Issue("accessibility", "low"),
      Issue("response_quality", "moderate"),
      Issue("ui_rendering", undefined),
      Issue("interaction", undefined),
      Issue("integration", ""),
      Issue(undefined, "critical"),
      [category |-> "security", severity |-> "high", description |-> undefined] }

\* time passes between two calls
Tick ==
    /\ now < MaxClock
    /\ now' = now + 1
    /\ UNCHANGED <<selVars, issues, ret, testVars, sumVars, prVars, chatVars, k6Vars>>

\* addIssue(issue), with r the digits Math.random() yields
addIssue(issue, r) ==
    IF generateIssueTitleThrows(issue)
    THEN /\ ret' = [op |-> "addIssue", issue |-> issue, threw |-> TRUE, id |-> <<>>]
         /\ UNCHANGED issues
    ELSE LET issueId == generateIssueId(now, r)
         IN /\ issues' = Append(issues, enrichedIssue(issue, issueId))
            /\ ret' = [op |-> "addIssue", issue |-> issue, threw |-> FALSE, id |-> issueId]

CallAddIssue ==
    /\ Len(issues) < MaxIssues
    /\ \E issue \in IssueInputs, r \in RandomSuffixes : addIssue(issue, r)
    /\ UNCHANGED <<selVars, now, testVars, sumVars, prVars, chatVars, k6Vars>>

\* clearIssues()
clearIssues ==
    /\ issues # <<>>
    /\ issues' = <<>>
    /\ ret' = [op |-> "clearIssues"]
    /\ UNCHANGED <<selVars, now, testVars, sumVars, prVars, chatVars, k6Vars>>

\* getIssuesBySeverity on a list of stored issues
getIssuesBySeverity(list, severity) ==
    LET is(issue) == issue.severity = severity IN SelectSeq(list, is)

\* getIssuesByCategory on a list of stored issues
getIssuesByCategory(list, category) ==
    LET is(issue) == issue.category = category IN SelectSeq(list, is)

\* issue.businessPriority >= 7 (false for NaN)
isHighPriority_strict(issue) ==
    ~issue.businessPriority.nan /\ issue.businessPriority.n > 7
isHighPriority(issue) ==
    ~issue.businessPriority.nan /\ issue.businessPriority.n >= 7

\* the comparator (a, b) => b.businessPriority - a.businessPriority is
\* positive when a must come after b
comesAfter(a, b) == b.businessPriority.n - a.businessPriority.n > 0

\* Array.prototype.sort with that comparator: a stable sort, here by
\* insertion of each element after the elements it does not precede
RECURSIVE insertSorted(_, _)
insertSorted(sorted, x) ==
    IF sorted = <<>> THEN <<x>>
    ELSE IF comesAfter(Head(sorted), x) THEN <<x>> \o sorted
    ELSE <<Head(sorted)>> \o insertSorted(Tail(sorted), x)

RECURSIVE sort(_)
sort(list) ==
    IF list = <<>> THEN <<>>
    ELSE insertSorted(sort(SubSeq(list, 1, Len(list) - 1)), list[Len(list)])

\* getHighPriorityIssues(): filter (SelectSeq) builds a new array, which sort orders in
\* place; this.issues is not written
getHighPriorityIssues ==
    /\ ret' = [op |-> "getHighPriorityIssues", list |-> sort(SelectSeq(issues, isHighPriority))]
    /\ UNCHANGED <<selVars, issues, now, testVars, sumVars, prVars, chatVars, k6Vars>>

\* the ids of a list of issues: list.map(issue => issue.id)
issueIds(list) == [i \in 1..Len(list) |-> list[i].id]

\* priorityOrder of generateRecommendations
priorityOrder_reversed == [IMMEDIATE |-> 0, HIGH |-> 1, MEDIUM |-> 2, LOW |-> 3]
priorityOrder == [IMMEDIATE |-> 3, HIGH |-> 2, MEDIUM |-> 1, LOW |-> 0]

\* the comparator (a, b) => priorityOrder[b.priority] - priorityOrder[a.priority]
\* is positive when a must come after b
recommendationComesAfter(a, b) == priorityOrder[b.priority] - priorityOrder[a.priority] > 0

\* recommendations.sort with that comparator (stable)
RECURSIVE insertRecommendation(_, _)
insertRecommendation(sorted, x) ==
    IF sorted = <<>> THEN <<x>>
    ELSE IF recommendationComesAfter(Head(sorted), x) THEN <<x>> \o sorted
    ELSE <<Head(sorted)>> \o insertRecommendation(Tail(sorted), x)

RECURSIVE sortRecommendations(_)
sortRecommendations(list) ==
    IF list = <<>> THEN <<>>
    ELSE insertRecommendation(sortRecommendations(SubSeq(list, 1, Len(list) - 1)),
                              list[Len(list)])

\* one pushed recommendation, or none when the list it is about is empty; the
\* texts description, estimatedTime and businessImpact are left out
recommendationFor(priority, action, list) ==
    IF Len(list) > 0
    THEN << [priority |-> priority, action |-> action, issues |-> issueIds(list)] >>
    ELSE <<>>

\* the array generateRecommendations returns for a list of stored issues
recommendations(list) ==
    sortRecommendations(
        recommendationFor("IMMEDIATE", "Address Critical Issues",
                          getIssuesBySeverity(list, "critical"))
        \o recommendationFor("HIGH", "Resolve High-Priority Issues",
                             sort(SelectSeq(list, isHighPriority)))
        \o recommendationFor("MEDIUM", "Improve Response Quality",
                             getIssuesByCategory(list, "response_quality"))
        \o recommendationFor("MEDIUM", "Enhance Accessibility",
                             getIssuesByCategory(list, "accessibility")))

\* generateRecommendations()
generateRecommendations ==
    /\ ret' = [op |-> "generateRecommendations", list |-> recommendations(issues)]
    /\ UNCHANGED <<selVars, issues, now, testVars, sumVars, prVars, chatVars, k6Vars>>

\* the ids removeIssue and updateIssue are called with: every id an issue can
\* have, stored or not
IssueIds == {generateIssueId(t, r) : t \in 0..MaxClock, r \in RandomSuffixes}

\* this.issues.length < initialLength
removed_notGreater(before, after) == Len(after) <= Len(before)
removed(before, after) == Len(after) < Len(before)

\* removeIssue(issueId)
removeIssue(issueId) ==
    LET keep(issue) == issue.id # issueId
        after == SelectSeq(issues, keep)
    IN /\ issues' = after
       /\ ret' = [op |-> "removeIssue", id |-> issueId, value |-> removed(issues, after),
                  before |-> issues]

CallRemoveIssue ==
    /\ \E issueId \in IssueIds : removeIssue(issueId)
    /\ UNCHANGED <<selVars, now, testVars, sumVars, prVars, chatVars, k6Vars>>

\* the issues added before an issue is removed or updated
MaxEditIssues == 3
EditInputs == { Issue("core_functionality", "critical"), Issue("accessibility", "low") }

EditAddIssue ==
    /\ Len(issues) < MaxEditIssues
    /\ \E issue \in EditInputs, r \in RandomSuffixes : addIssue(issue, r)
    /\ UNCHANGED <<selVars, now, testVars, sumVars, prVars, chatVars, k6Vars>>

\* the updates updateIssue is called with: a field addIssue does not write, a
\* field it writes
UpdateInputs == { [status |-> "resolved"], [severity |-> "critical"] }

\* this.issues.findIndex(issue => issue.id === issueId), 0 for -1
findIndex(list, issueId) ==
    IF \E i \in 1..Len(list) : list[i].id = issueId
    THEN CHOOSE i \in 1..Len(list) :
            /\ list[i].id = issueId
            /\ \A j \in 1..(i - 1) : list[j].id # issueId
    ELSE 0

\* { ...issue, ...updates }
merge_replace(issue, updates) == updates
merge(issue, updates) ==
    [f \in (DOMAIN issue) \cup (DOMAIN updates) |->
        IF f \in DOMAIN updates THEN updates[f] ELSE issue[f]]

\* updateIssue(issueId, updates)
updateIssue(issueId, updates) ==
    LET issueIndex == findIndex(issues, issueId)
    IN IF issueIndex # 0
       THEN /\ issues' = [issues EXCEPT ![issueIndex] = merge(issues[issueIndex], updates)]
            /\ ret' = [op |-> "updateIssue", id |-> issueId, updates |-> updates,
                       value |-> TRUE, before |-> issues]
       ELSE /\ issues' = issues
            /\ ret' = [op |-> "updateIssue", id |-> issueId, updates |-> updates,
                       value |-> FALSE, before |-> issues]

CallUpdateIssue ==
    /\ \E issueId \in IssueIds, updates \in UpdateInputs : updateIssue(issueId, updates)
    /\ UNCHANGED <<selVars, now, testVars, sumVars, prVars, chatVars, k6Vars>>

InitIssues == IdleSelector /\ IdleAnalyzer /\ IdleTests /\ IdleSummary /\ IdlePriority /\ IdleChat /\ IdleK6

NextIssues ==
    \/ Tick \/ CallAddIssue \/ clearIssues \/ getHighPriorityIssues
    \/ generateRecommendations

SpecIssues == InitIssues /\ [][NextIssues]_vars

\* the analyzer's issues being added, removed and updated
InitEdit == IdleSelector /\ IdleAnalyzer /\ IdleTests /\ IdleSummary /\ IdlePriority /\ IdleChat /\ IdleK6

NextEdit == EditAddIssue \/ CallRemoveIssue \/ CallUpdateIssue

SpecEdit == InitEdit /\ [][NextEdit]_vars

(***************************************************************************)
(* Claims about addIssue and getHighPriorityIssues (checked under          *)
(* SpecIssues)                                                             *)
(***************************************************************************)
\* C3: the businessPriority of every stored issue is calculateBusinessPriority
\* of its stored category and its stored severity.
C3_PriorityFromStoredSeverity ==
    \A i \in 1..Len(issues) :
        issues[i].businessPriority =
            calculateBusinessPriority([category |-> issues[i].category,
                                       severity |-> issues[i].severity])

\* C4: the severity addIssue stores is the severity given, else the default
\* severity of the category in the categories table, else 'moderate'.
C4_StoredSeverity ==
    (ret.op = "addIssue" /\ ~ret.threw) =>
        LET given == ret.issue.severity
            stored == issues[Len(issues)]
        IN /\ stored.id = ret.id
           /\ stored.category = ret.issue.category
           /\ stored.severity =
                IF given # undefined /\ given # "" THEN given
                ELSE IF stored.category \in DOMAIN categories
                     THEN categories[stored.category].severity
                     ELSE "moderate"

\* an issue stored without a severity whose category has a default other
\* than 'moderate', after an issue whose severity was given
C4_Witness ==
    /\ ret.op = "addIssue" /\ ~ret.threw
    /\ ret.issue.severity = undefined
    /\ Len(issues) >= 2
    /\ issues[Len(issues)].severity = "critical"
    /\ issues[1].severity = "low"

\* C8: no two stored issues have the same id.
C8_UniqueIds ==
    \A i, j \in 1..Len(issues) : i # j => issues[i].id # issues[j].id

C10_Count(list, x) == Cardinality({i \in 1..Len(list) : list[i] = x})

C10_Inv ==
    ret.op = "getHighPriorityIssues" =>
        /\ \A i \in 1..Len(issues) :
             C10_Count(ret.list, issues[i]) =
                IF ~issues[i].businessPriority.nan /\ issues[i].businessPriority.n >= 7
                THEN C10_Count(issues, issues[i]) ELSE 0
        /\ \A k \in 1..Len(ret.list) : \E i \in 1..Len(issues) : issues[i] = ret.list[k]
        /\ \A k \in 1..(Len(ret.list) - 1) :
             ret.list[k].businessPriority.n >= ret.list[k + 1].businessPriority.n

\* C10: getHighPriorityIssues returns exactly the stored issues whose
\* businessPriority is at least 7, each as often as it is stored, in
\* non-increasing order of businessPriority, and leaves the stored list as it
\* was.
C10_HighPriorityIssues ==
    /\ []C10_Inv
    /\ [][ret'.op = "getHighPriorityIssues" => issues' = issues]_vars

\* a call that dropped a stored issue and put a later issue first
C10_Witness ==
    /\ ret.op = "getHighPriorityIssues"
    /\ Len(issues) = 3
    /\ Len(ret.list) = 2
    /\ ret.list[1] = issues[3]
    /\ ret.list[2] = issues[1]

(***************************************************************************)
(* The basic-functionality tests: the issues they record                   *)
(***************************************************************************)
\* for every test: the addIssue calls of its try block in program order, each
\* behind a condition and after awaited helper calls that may throw; whether
\* statements that may throw follow the last of them; the addIssue call of
\* its catch block
TestPrograms ==
    [ widgetLoads |->
        [ try |-> <<>>, tail |-> TRUE,
          catch |-> Issue("ui_rendering", "critical") ],
      openClose |->
        [ try |-> <<>>, tail |-> TRUE,
          catch |-> Issue("interaction", "critical") ],
      basicMessage |->
        [ try |-> << Issue("response_quality", "moderate") >>, tail |-> TRUE,
          catch |-> Issue("core_functionality", "critical") ],
      consecutiveMessages |->
        [ try |-> << Issue("performance_consistency", "moderate") >>, tail |-> TRUE,
          catch |-> Issue("conversation_flow", "high") ],
      inputValidation |->
        [ try |-> << Issue("input_validation", "minor"),
                     Issue("character_encoding", "moderate") >>, tail |-> FALSE,
          catch |-> Issue("input_handling", "moderate") ],
      accessibility |->
        [ try |-> << Issue("accessibility", "moderate") >>, tail |-> FALSE,
          catch |-> Issue("accessibility", "low") ],
      errorHandling |->
        [ try |-> << Issue("error_recovery", "moderate"),
                     Issue("security", "high"), Issue("security", "high"),
                     Issue("security", "high"), Issue("security", "high") >>, tail |-> FALSE,
          catch |-> Issue("error_handling", "moderate") ] ]

TestNames == DOMAIN TestPrograms

NoTest == [name |-> "none", pc |-> 0]

\* test.beforeEach: a new IssueAnalyzer for the test
beforeEach ==
    /\ testRun = NoTest
    /\ \E t \in TestNames : testRun' = [name |-> t, pc |-> 1]
    /\ issues' = <<>>
    /\ ret' = [op |-> "none"]
    /\ UNCHANGED <<selVars, now, sumVars, prVars, chatVars, k6Vars>>

InTry == testRun.name \in TestNames /\ testRun.pc >= 1

\* the condition of the next addIssue call of the try block holds
TestRecords ==
    /\ InTry
    /\ testRun.pc <= Len(TestPrograms[testRun.name].try)
    /\ \E r \in RandomSuffixes : addIssue(TestPrograms[testRun.name].try[testRun.pc], r)
    /\ testRun' = [testRun EXCEPT !.pc = @ + 1]
    /\ UNCHANGED <<selVars, now, sumVars, prVars, chatVars, k6Vars>>

\* the condition of the next addIssue call of the try block does not hold
TestSkips ==
    /\ InTry
    /\ testRun.pc <= Len(TestPrograms[testRun.name].try)
    /\ testRun' = [testRun EXCEPT !.pc = @ + 1]
    /\ UNCHANGED <<selVars, issueVars, sumVars, prVars, chatVars, k6Vars>>

\* a helper call or an expectation of the try block throws: the catch block
\* records its issue and the test ends
TestCatches ==
    /\ InTry
    /\ \/ testRun.pc <= Len(TestPrograms[testRun.name].try)
       \/ TestPrograms[testRun.name].tail
    /\ \E r \in RandomSuffixes : addIssue(TestPrograms[testRun.name].catch, r)
    /\ testRun' = [testRun EXCEPT !.pc = 0]
    /\ UNCHANGED <<selVars, now, sumVars, prVars, chatVars, k6Vars>>

\* the try block runs to its end
TestCompletes ==
    /\ InTry
    /\ testRun.pc = Len(TestPrograms[testRun.name].try) + 1
    /\ testRun' = [testRun EXCEPT !.pc = 0]
    /\ UNCHANGED <<selVars, issueVars, sumVars, prVars, chatVars, k6Vars>>

\* test.afterEach: reads the issues of the test that ended
afterEach ==
    /\ testRun.name \in TestNames /\ testRun.pc = 0
    /\ testRun' = NoTest
    /\ ret' = [op |-> "getIssues", list |-> issues]
    /\ UNCHANGED <<selVars, issues, now, sumVars, prVars, chatVars, k6Vars>>

InitTests == IdleSelector /\ IdleAnalyzer /\ IdleTests /\ IdleSummary /\ IdlePriority /\ IdleChat /\ IdleK6

NextTests ==
    Tick \/ beforeEach \/ TestRecords \/ TestSkips \/ TestCatches \/ TestCompletes \/ afterEach

SpecTests == InitTests /\ [][NextTests]_vars

(***************************************************************************)
(* IssueAnalyzer: summary                                                  *)
(***************************************************************************)
\* bySeverity of generateSummary
severityBreakdown(list) ==
    [ critical |-> Len(getIssuesBySeverity(list, "critical")),
      high     |-> Len(getIssuesBySeverity(list, "high")),
      moderate |-> Len(getIssuesBySeverity(list, "moderate")),
      minor    |-> Len(getIssuesBySeverity(list, "minor")) ]

\* the decision of calculateOverallRiskLevel on the summary it asks for
riskLevel(total, bySeverity) ==
    IF bySeverity.critical > 0 THEN "CRITICAL"
    ELSE IF bySeverity.high > 2 \/ total > 10 THEN "HIGH"
    ELSE IF bySeverity.high > 0 \/ total > 5 THEN "MEDIUM"
    ELSE "LOW"

\* bounds of the summary model: the frames the call stack holds, the issues
\* stored when a summary is asked for
MaxStack == 4
MaxSummaryIssues == 2

\* the issue lists a summary is asked for
SummaryInputs ==
    LET stored == { enrichedIssue(i, generateIssueId(0, 1)) :
                      i \in {x \in IssueInputs : ~generateIssueTitleThrows(x)} }
    IN UNION { [1..n -> stored] : n \in 0..MaxSummaryIssues }

\* the functions a caller enters a summary through
SummaryEntries == {"generateSummary", "calculateOverallRiskLevel", "exportSummary"}

\* the call a function makes before it can return: generateSummary evaluates
\* this.calculateOverallRiskLevel() for the object it returns,
\* calculateOverallRiskLevel starts with this.generateSummary(), exportSummary
\* starts with this.generateSummary()
Callee(fn) ==
    IF fn = "generateSummary" THEN "calculateOverallRiskLevel" ELSE "generateSummary"

\* a caller enters one of the summary functions
CallSummary ==
    /\ stack = <<>>
    /\ outcome = "none"
    /\ \E fn \in SummaryEntries : stack' = <<fn>>
    /\ UNCHANGED <<selVars, issueVars, testVars, outcome, prVars, chatVars, k6Vars>>

\* the running function makes its call and a frame is pushed
PushFrame ==
    /\ stack # <<>>
    /\ outcome = "none"
    /\ Len(stack) < MaxStack
    /\ stack' = Append(stack, Callee(stack[Len(stack)]))
    /\ UNCHANGED <<selVars, issueVars, testVars, outcome, prVars, chatVars, k6Vars>>

\* the running function makes its call and the stack is exhausted: the
\* engine throws RangeError (Maximum call stack size exceeded)
StackOverflow ==
    /\ stack # <<>>
    /\ outcome = "none"
    /\ Len(stack) = MaxStack
    /\ outcome' = "RangeError"
    /\ UNCHANGED <<selVars, issueVars, testVars, stack, prVars, chatVars, k6Vars>>

\* no frame catches: the error leaves each function in turn
Unwind ==
    /\ outcome = "RangeError"
    /\ stack # <<>>
    /\ stack' = SubSeq(stack, 1, Len(stack) - 1)
    /\ UNCHANGED <<selVars, issueVars, testVars, outcome, prVars, chatVars, k6Vars>>

InitSummary ==
    /\ IdleSelector /\ IdleTests /\ IdleSummary /\ IdlePriority /\ IdleChat /\ IdleK6
    /\ issues \in SummaryInputs
    /\ now = 0
    /\ ret = [op |-> "none"]

NextSummary == CallSummary \/ PushFrame \/ StackOverflow \/ Unwind

SpecSummary == InitSummary /\ [][NextSummary]_vars

(***************************************************************************)
(* calculateBusinessPriority as a function of its argument                 *)
(***************************************************************************)
\* the categories and severities calculateBusinessPriority is applied to: the
\* entries of its tables, a category and a severity the tests use that are not
\* entries, a missing one, an empty one, one that names an inherited property
PriorityCategories ==
    (DOMAIN categoryMultipliers) \cup {"interaction", undefined, "constructor"}
PrioritySeverities ==
    (DOMAIN severityScores) \cup {"low", undefined, "", "constructor"}

CallCalculateBusinessPriority ==
    /\ ~prResult.called
    /\ prResult' = [called |-> TRUE, value |-> calculateBusinessPriority(prIssue)]
    /\ UNCHANGED <<selVars, issueVars, testVars, sumVars, prIssue, chatVars, k6Vars>>

InitPriority ==
    /\ IdleSelector /\ IdleAnalyzer /\ IdleTests /\ IdleSummary /\ IdleChat /\ IdleK6
    /\ prIssue \in [category : PriorityCategories, severity : PrioritySeverities]
    /\ prResult = [called |-> FALSE]

NextPriority == CallCalculateBusinessPriority

SpecPriority == InitPriority /\ [][NextPriority]_vars

(***************************************************************************)
(* Claims about the summary, the priority score and the recorded issues    *)
(***************************************************************************)
C5_Finished(fn) == stack = <<fn>> /\ outcome # "none"

\* C5: a generateSummary call ends by returning a summary (whose totalIssues
\* is the number of stored issues and whose overallRiskLevel is the value of
\* calculateOverallRiskLevel), for every list of stored issues.
C5_SummaryReturns ==
    C5_Finished("generateSummary") => outcome = "returned"

\* C6: a calculateOverallRiskLevel call ends by returning one of LOW, MEDIUM,
\* HIGH, CRITICAL: the level its rules give for the stored issues.
C6_RiskLevelReturned ==
    C5_Finished("calculateOverallRiskLevel") =>
        /\ outcome \in {"LOW", "MEDIUM", "HIGH", "CRITICAL"}
        /\ outcome = riskLevel(Len(issues), severityBreakdown(issues))

\* C7: calculateBusinessPriority returns an integer from 1 to 10 for every
\* severity and every category, in its tables or not.
C7_PriorityInRange ==
    prResult.called =>
        /\ ~prResult.value.nan
        /\ prResult.value.n \in 1..10

C9_SeverityLevels == {"critical", "high", "moderate", "minor"}

\* C9: every issue a test records is stored with a severity among critical,
\* high, moderate, minor, so the four severityBreakdown counts sum to the
\* number of stored issues.
C9_SeverityPartition ==
    LET by == severityBreakdown(issues)
    IN /\ \A i \in 1..Len(issues) : issues[i].severity \in C9_SeverityLevels
       /\ by.critical + by.high + by.moderate + by.minor = Len(issues)

\* ---- generateRecommendations, removeIssue, updateIssue ----

C11_Rank(priority) ==
    CASE priority = "IMMEDIATE" -> 3
      [] priority = "HIGH" -> 2
      [] priority = "MEDIUM" -> 1
      [] OTHER -> 0

C11_CriticalPositions == {i \in 1..Len(issues) : issues[i].severity = "critical"}

C11_Quiet ==
    \A i \in 1..Len(issues) :
        /\ issues[i].severity # "critical"
        /\ ~ isHighPriority(issues[i])
        /\ issues[i].category \notin {"response_quality", "accessibility"}

\* C11: the recommendations generateRecommendations returns are in
\* non-increasing priority order; one of them is IMMEDIATE exactly when a stored
\* issue is critical, and it lists exactly the ids of the critical issues; the
\* list is empty when no stored issue is critical, has priority >= 7 or is of
\* category response_quality or accessibility.
C11_Recommendations ==
    ret.op = "generateRecommendations" =>
        /\ \A k \in 1..(Len(ret.list) - 1) :
              C11_Rank(ret.list[k].priority) >= C11_Rank(ret.list[k + 1].priority)
        /\ (\E k \in 1..Len(ret.list) : ret.list[k].priority = "IMMEDIATE")
              <=> C11_CriticalPositions # {}
        /\ \A k \in 1..Len(ret.list) :
              ret.list[k].priority = "IMMEDIATE" =>
                  /\ Len(ret.list[k].issues) = Cardinality(C11_CriticalPositions)
                  /\ {ret.list[k].issues[j] : j \in 1..Len(ret.list[k].issues)}
                        = {issues[i].id : i \in C11_CriticalPositions}
        /\ C11_Quiet => ret.list = <<>>

\* recommendations of all three priorities were returned while an issue that is
\* not critical is stored too
C11_Witness ==
    /\ ret.op = "generateRecommendations"
    /\ {ret.list[k].priority : k \in 1..Len(ret.list)} = {"IMMEDIATE", "HIGH", "MEDIUM"}
    /\ Len(ret.list) = 4
    /\ C11_CriticalPositions # {}
    /\ C11_CriticalPositions # 1..Len(issues)

C12_Kept == {i \in 1..Len(ret.before) : ret.before[i].id # ret.id}

C12_Nth(j) == CHOOSE i \in C12_Kept : Cardinality({k \in C12_Kept : k < i}) = j - 1

\* C12: removeIssue(id) returns true exactly when an issue with that id was
\* stored; afterwards no stored issue has that id and the other issues remain,
\* unchanged and in their original order; when it returns false the stored
\* issues are unchanged.
C12_RemoveIssue ==
    ret.op = "removeIssue" =>
        /\ ret.value = (\E i \in 1..Len(ret.before) : ret.before[i].id = ret.id)
        /\ \A i \in 1..Len(issues) : issues[i].id # ret.id
        /\ Len(issues) = Cardinality(C12_Kept)
        /\ \A j \in 1..Len(issues) : issues[j] = ret.before[C12_Nth(j)]
        /\ ~ ret.value => issues = ret.before

\* the second of three stored issues was removed
C12_Witness ==
    /\ ret.op = "removeIssue"
    /\ ret.value
    /\ Len(ret.before) = 3
    /\ issues = <<ret.before[1], ret.before[3]>>

\* C13: updateIssue(id, updates) returns true exactly when an issue with that id
\* is stored; when true only that issue changes, its fields overridden by the
\* fields of updates and the others kept, and the number and order of the
\* stored issues are unchanged; when false no stored issue changes.
C13_UpdateIssue ==
    ret.op = "updateIssue" =>
        /\ ret.value = (\E i \in 1..Len(ret.before) : ret.before[i].id = ret.id)
        /\ Len(issues) = Len(ret.before)
        /\ ret.value =>
              \E k \in 1..Len(issues) :
                  /\ ret.before[k].id = ret.id
                  /\ DOMAIN issues[k] = (DOMAIN ret.before[k]) \cup (DOMAIN ret.updates)
                  /\ \A f \in DOMAIN ret.updates : issues[k][f] = ret.updates[f]
                  /\ \A f \in (DOMAIN ret.before[k]) \ (DOMAIN ret.updates) :
                        issues[k][f] = ret.before[k][f]
                  /\ \A i \in (1..Len(issues)) \ {k} : issues[i] = ret.before[i]
        /\ ~ ret.value => issues = ret.before

\* the second of three stored issues was updated and is no longer what it was
C13_Witness ==
    /\ ret.op = "updateIssue"
    /\ ret.value
    /\ Len(issues) = 3
    /\ issues[2] # ret.before[2]
    /\ issues[2].severity = "critical"
    /\ ret.before[2].severity = "low"
    /\ issues[2].category = ret.before[2].category

\* ---- categoryBreakdown of the summary ----

\* byCategory of generateSummary: one count per key of this.categories
categoryBreakdown(list) ==
    [category \in DOMAIN categories |-> Len(getIssuesByCategory(list, category))]

RECURSIVE C17_Sum(_, _)
C17_Sum(counts, keys) ==
    IF keys = {} THEN 0
    ELSE LET k == CHOOSE x \in keys : TRUE
         IN counts[k] + C17_Sum(counts, keys \ {k})

\* C17: every issue the basic-functionality tests record has a category of the
\* analyzer's categories table, so the counts of categoryBreakdown add up to
\* the number of stored issues.
C17_CategoryCounts ==
    /\ \A i \in 1..Len(issues) : issues[i].category \in DOMAIN categories
    /\ C17_Sum(categoryBreakdown(issues), DOMAIN categories) = Len(issues)

\* ---- reachability of the fallback tables ----

C16_PrimaryCategories == {"widget", "chat", "messages", "interactive", "status"}

\* the manager can make a call getSelector(page, category, key), for an element
\* key that a primary category defines, whose primary selector is answered not
\* visible and which returns the entry `selector` from the branch `source`
C16_FallsBackTo(source, key, selector) ==
    \E category \in C16_PrimaryCategories :
        /\ key \in DOMAIN HUBSPOT_SELECTORS[category]
        /\ \E obs \in Observations(Candidates(category, key)) :
              ENABLED ( /\ getSelector(category, key, obs)
                        /\ selCall'.outcome = "return"
                        /\ selCall'.trace[1].source = "primary"
                        /\ ~ selCall'.trace[1].visible
                        /\ selCall'.trace[Len(selCall'.trace)].source = source
                        /\ selCall'.value = selector )

\* C16: for every key of the CSS fallback table and of every alternative
\* framework table there is an element of a primary category for which
\* getSelector falls back to that entry when the primary selector is not
\* visible (in every state in which the map of discovered selectors has room).
C16_EveryEntryReachable ==
    Cardinality(DOMAIN discoveredSelectors) < MaxDiscovered =>
    /\ \A key \in DOMAIN HUBSPOT_SELECTORS.fallback :
          C16_FallsBackTo("fallback", key, HUBSPOT_SELECTORS.fallback[key])
    /\ \A framework \in DOMAIN ALTERNATIVE_SELECTORS :
          \A key \in DOMAIN ALTERNATIVE_SELECTORS[framework] :
              C16_FallsBackTo(framework, key, ALTERNATIVE_SELECTORS[framework][key])

(***************************************************************************)
(* ChatbotHelper: openChatbot, closeChatbot                                *)
(***************************************************************************)

\* launcherSelectors of openChatbot
launcherSelectors ==
    << "[data-test-id*=\"chat-launcher\"]", "[class*=\"chat-launcher\"]",
       "[class*=\"chat-widget\"]", "[aria-label*=\"chat\"]", "[title*=\"chat\"]",
       "button[class*=\"chat\"]", ".widget-container" >>

\* closeSelectors of closeChatbot
closeSelectors ==
    << "[data-test-id*=\"close\"]", "[aria-label*=\"close\"]", "[title*=\"close\"]",
       ".close-button", "[class*=\"close\"]", "button[aria-label*=\"Close\"]" >>

\* openIndicators of isChatbotOpen
openIndicators ==
    << "[data-test-id*=\"chat-container\"]", "[data-test-id*=\"chat-input\"]",
       "[class*=\"chat-open\"]", "[class*=\"chat-expanded\"]",
       "textarea[placeholder*=\"message\"]", "input[placeholder*=\"message\"]",
       "[contenteditable=\"true\"]" >>

\* what a page can answer to the probes of the open indicators: no indicator,
\* the first or the last one visible; the other probes hidden, or failing
PageViews ==
    { [i \in 1..Len(openIndicators) |-> IF i = k THEN "visible" ELSE o] :
        k \in {0, 1, Len(openIndicators)}, o \in {"hidden", "error"} }

\* isChatbotOpen(): true at the first indicator whose locator reports visible;
\* a locator error is caught and the next indicator is tried
RECURSIVE isChatbotOpenFrom(_, _)
isChatbotOpenFrom(view, i) ==
    IF i > Len(openIndicators) THEN FALSE
    ELSE IF view[i] = "visible" THEN TRUE
    ELSE isChatbotOpenFrom(view, i + 1)

isChatbotOpen(view) == isChatbotOpenFrom(view, 1)

\* isChatbotClosed()
isChatbotClosed_same(view) == isChatbotOpen(view)
isChatbotClosed(view) == ~ isChatbotOpen(view)

\* the iframes page.locator('iframe').all() can return
MaxIframes == 2

\* what a click, a key press or the wait after it does: it resolves or throws
ActionOutcomes == {"done", "throws"}

\* an iframe of the page: its src or title contains 'chat', neither does, or
\* reading an attribute throws
IframeKinds == {"chat", "other", "error"}

NotRunning == IF chat.fn = "none" THEN TRUE ELSE chat.outcome # "running"

Running(fn, pc) == chat.fn = fn /\ chat.outcome = "running" /\ chat.pc = pc

\* a call that has just been entered: i is the position in the list the call
\* walks, n the number of iframes found, after the action that preceded the
\* last isChatbotOpen() evaluation and observed what that evaluation returned
StartCall(fn, pc) ==
    [fn |-> fn, pc |-> pc, i |-> 1, n |-> 0, after |-> "none", observed |-> FALSE,
     outcome |-> "running"]

\* openChatbot() is called
CallOpenChatbot ==
    /\ NotRunning
    /\ chat' = StartCall("openChatbot", "launchers")
    /\ UNCHANGED <<selVars, issueVars, testVars, sumVars, prVars, page, k6Vars>>

\* one iteration of the loop over launcherSelectors
OpenTryLauncher ==
    /\ Running("openChatbot", "launchers")
    /\ \E answer \in LocatorOutcomes, click \in ActionOutcomes, view \in PageViews :
          LET next == IF chat.i < Len(launcherSelectors)
                      THEN [chat EXCEPT !.i = @ + 1]
                      ELSE [chat EXCEPT !.pc = "iframes", !.i = 1]
          IN IF answer # "visible"
             THEN page' = page /\ chat' = next
             ELSE IF click = "throws"
             THEN page' = view /\ chat' = next
             ELSE /\ page' = view
                  /\ chat' = IF isChatbotOpen(view)
                             THEN [chat EXCEPT !.after = "launcher", !.observed = TRUE,
                                               !.outcome = "returned"]
                             ELSE [next EXCEPT !.after = "launcher", !.observed = FALSE]
    /\ UNCHANGED <<selVars, issueVars, testVars, sumVars, prVars, k6Vars>>

\* page.locator('iframe').all(): it throws, or the loop over the iframes is
\* entered; with no iframe the call throws 'Could not open chatbot'
OpenListIframes ==
    /\ Running("openChatbot", "iframes")
    /\ \E all \in ActionOutcomes, n \in 0..MaxIframes :
          chat' = IF all = "throws" \/ n = 0
                  THEN [chat EXCEPT !.outcome = "thrown"]
                  ELSE [chat EXCEPT !.pc = "iframe", !.i = 1, !.n = n]
    /\ UNCHANGED <<selVars, issueVars, testVars, sumVars, prVars, page, k6Vars>>

\* one iteration of the loop over the iframes; after the last one the call
\* throws 'Could not open chatbot'
OpenTryIframe ==
    /\ Running("openChatbot", "iframe")
    /\ \E kind \in IframeKinds, click \in ActionOutcomes, view \in PageViews :
          LET next == IF chat.i < chat.n
                      THEN [chat EXCEPT !.i = @ + 1]
                      ELSE [chat EXCEPT !.outcome = "thrown"]
          IN IF kind # "chat"
             THEN page' = page /\ chat' = next
             ELSE IF click = "throws"
             THEN page' = view /\ chat' = next
             ELSE /\ page' = view
                  /\ chat' = IF isChatbotOpen(view)
                             THEN [chat EXCEPT !.after = "iframe", !.observed = TRUE,
                                               !.outcome = "returned"]
                             ELSE [next EXCEPT !.after = "iframe", !.observed = FALSE]
    /\ UNCHANGED <<selVars, issueVars, testVars, sumVars, prVars, k6Vars>>

\* closeChatbot() is called
CallCloseChatbot ==
    /\ NotRunning
    /\ chat' = StartCall("closeChatbot", "closeButtons")
    /\ UNCHANGED <<selVars, issueVars, testVars, sumVars, prVars, page, k6Vars>>

\* one iteration of the loop over closeSelectors
CloseTryButton ==
    /\ Running("closeChatbot", "closeButtons")
    /\ \E answer \in LocatorOutcomes, click \in ActionOutcomes, view \in PageViews :
          LET next == IF chat.i < Len(closeSelectors)
                      THEN [chat EXCEPT !.i = @ + 1]
                      ELSE [chat EXCEPT !.pc = "escape", !.i = 1]
          IN IF answer # "visible"
             THEN page' = page /\ chat' = next
             ELSE IF click = "throws"
             THEN page' = view /\ chat' = next
             ELSE /\ page' = view
                  /\ chat' = IF isChatbotClosed(view)
                             THEN [chat EXCEPT !.after = "closeButton",
                                               !.observed = isChatbotOpen(view),
                                               !.outcome = "returned"]
                             ELSE [next EXCEPT !.after = "closeButton",
                                               !.observed = isChatbotOpen(view)]
    /\ UNCHANGED <<selVars, issueVars, testVars, sumVars, prVars, k6Vars>>

\* page.keyboard.press('Escape') and what follows it
ClosePressEscape ==
    /\ Running("closeChatbot", "escape")
    /\ \E press \in ActionOutcomes, view \in PageViews :
          /\ page' = view
          /\ chat' = IF press = "throws"
                     THEN [chat EXCEPT !.outcome = "thrown"]
                     ELSE [chat EXCEPT !.after = "Escape",
                                       !.observed = isChatbotOpen(view),
                                       !.outcome = IF isChatbotClosed(view)
                                                   THEN "returned" ELSE "thrown"]
    /\ UNCHANGED <<selVars, issueVars, testVars, sumVars, prVars, k6Vars>>

\* a ChatbotHelper on a page in any of its views
InitChat ==
    /\ IdleSelector /\ IdleAnalyzer /\ IdleTests /\ IdleSummary /\ IdlePriority /\ IdleK6
    /\ page \in PageViews
    /\ chat = [fn |-> "none"]

NextChat ==
    \/ CallOpenChatbot \/ OpenTryLauncher \/ OpenListIframes \/ OpenTryIframe
    \/ CallCloseChatbot \/ CloseTryButton \/ ClosePressEscape

SpecChat == InitChat /\ [][NextChat]_vars

\* C14: openChatbot returns normally only after isChatbotOpen was observed
\* true following a click it made, closeChatbot only after the chatbot was
\* observed closed following a close-button click or an Escape press, and
\* each call ends by returning or throwing; so isChatbotOpen holds of the page
\* right after openChatbot returns and isChatbotClosed right after closeChatbot
\* returns.
C14_OpenClose ==
    chat.fn # "none" =>
        /\ chat.outcome \in {"running", "returned", "thrown"}
        /\ (chat.fn = "openChatbot" /\ chat.outcome = "returned") =>
              /\ chat.after \in {"launcher", "iframe"}
              /\ chat.observed
              /\ isChatbotOpen(page)
        /\ (chat.fn = "closeChatbot" /\ chat.outcome = "returned") =>
              /\ chat.after \in {"closeButton", "Escape"}
              /\ ~ chat.observed
              /\ isChatbotClosed(page)

\* closeChatbot returned after no close button closed the chatbot and the
\* Escape press did, on a page whose indicator probes fail
C14_Witness ==
    /\ chat.fn = "closeChatbot"
    /\ chat.outcome = "returned"
    /\ chat.after = "Escape"
    /\ \E i \in 1..Len(page) : page[i] = "error"

(***************************************************************************)
(* k6 load script: simulateChatbotAPI, simulateConversation                *)
(***************************************************************************)

\* TEST_SCENARIOS, without the message texts
TEST_SCENARIOS ==
    << [category |-> "greeting", weight |-> 30],
       [category |-> "pricing_inquiry", weight |-> 25],
       [category |-> "product_info", weight |-> 20],
       [category |-> "support", weight |-> 15],
       [category |-> "contact", weight |-> 10] >>

\* the values of Math.random(), in hundredths
RandomPercents == {5 * k : k \in 0..19}

\* TEST_SCENARIOS.reduce((sum, scenario) => sum + scenario.weight, 0)
RECURSIVE totalWeightFrom(_)
totalWeightFrom(i) ==
    IF i > Len(TEST_SCENARIOS) THEN 0
    ELSE TEST_SCENARIOS[i].weight + totalWeightFrom(i + 1)

\* the loop of getRandomScenario with its fallback, random in hundredths of
\* a weight unit
RECURSIVE pickScenario(_, _)
pickScenario(random, i) ==
    IF i > Len(TEST_SCENARIOS) THEN "greeting"
    ELSE IF random - 100 * TEST_SCENARIOS[i].weight <= 0 THEN TEST_SCENARIOS[i].category
    ELSE pickScenario(random - 100 * TEST_SCENARIOS[i].weight, i + 1)

\* the category getRandomScenario() returns when Math.random() yields p / 100
getRandomScenario(p) == pickScenario(p * totalWeightFrom(1), 1)

\* Math.floor(Math.random() * 4) + 1
conversationLength(p) == (p * 4) \div 100 + 1

\* Math.random() > 0.7
asksFollowUp(p) == p > 70

\* the responses http.post can return: status, body and timings.duration
Responses ==
    [status : {200, 201, 500}, body : {"", "ok"}, duration : {1000, 3000, 10000, 10001}]

\* check(response, {...}): true when all five checks pass
check_statusOnly(r) == r.status = 200 \/ r.status = 201
check(r) ==
    /\ r.status = 200 \/ r.status = 201
    /\ Truthy(r.body) /\ Len(r.body) > 0
    /\ r.duration < 10000
    /\ r.duration < 5000
    /\ r.duration < 3000

\* the requests of one run
MaxRequests == 5

\* the session ids the callers make up
SessionIds == {"session_1_0_0", "sustained_1_0"}

\* the part of the payload that identifies the request
payload(message, sessionId) == [message |-> message, sessionId |-> sessionId]

\* simulateChatbotAPI(message, sessionId), r being the response of http.post
simulateChatbotAPI(message, sessionId, r) ==
    LET responseOK == check(r)
    IN /\ metrics.http_reqs < MaxRequests
       /\ response' = r
       /\ metrics' =
            [ http_reqs |-> metrics.http_reqs + 1,
              response_time |-> metrics.response_time + 1,
              errors |-> [samples |-> metrics.errors.samples + 1,
                          ones |-> metrics.errors.ones + (IF ~ responseOK THEN 1 ELSE 0)],
              chatbot_responses |-> metrics.chatbot_responses + (IF ~ responseOK THEN 0 ELSE 1),
              timeouts |-> metrics.timeouts + (IF r.duration > 10000 THEN 1 ELSE 0) ]

NoConversation == conv.pc \in {"none", "done"}

\* simulateConversation(sessionId) is entered and draws conversationLength
CallSimulateConversation ==
    /\ NoConversation
    /\ metrics.http_reqs < MaxRequests
    /\ \E sessionId \in SessionIds, p \in RandomPercents :
          conv' = [pc |-> "loop", sessionId |-> sessionId, length |-> conversationLength(p),
                   i |-> 0, sent |-> <<>>]
    /\ UNCHANGED <<selVars, issueVars, testVars, sumVars, prVars, chatVars, metrics, response>>

\* i++ and the loop test
nextIteration(c) ==
    [c EXCEPT !.i = @ + 1, !.pc = IF c.i + 1 < c.length THEN "loop" ELSE "done"]

\* one iteration of the loop up to the decision to ask a follow-up
ConversationMessage ==
    /\ conv.pc = "loop"
    /\ \E category \in {getRandomScenario(p) : p \in RandomPercents},
          followUp \in {asksFollowUp(p) : p \in RandomPercents},
          r \in Responses :
          /\ simulateChatbotAPI("scenario", conv.sessionId, r)
          /\ LET said == [conv EXCEPT !.sent = Append(@, payload("scenario", conv.sessionId))]
             IN conv' = IF category = "pricing_inquiry" /\ conv.i = 0 /\ followUp
                        THEN [said EXCEPT !.pc = "followUp"]
                        ELSE nextIteration(said)
    /\ UNCHANGED <<selVars, issueVars, testVars, sumVars, prVars, chatVars>>

\* the follow-up message and the end of the iteration
ConversationFollowUp ==
    /\ conv.pc = "followUp"
    /\ \E r \in Responses :
          /\ simulateChatbotAPI("followUp", conv.sessionId, r)
          /\ conv' = nextIteration(
                        [conv EXCEPT !.sent = Append(@, payload("followUp", conv.sessionId))])
    /\ UNCHANGED <<selVars, issueVars, testVars, sumVars, prVars, chatVars>>

\* a call of simulateChatbotAPI outside a conversation: the single message of
\* the default function, a message of handleLoadSpike
SingleMessage ==
    /\ NoConversation
    /\ \E sessionId \in SessionIds, r \in Responses :
          simulateChatbotAPI("scenario", sessionId, r)
    /\ UNCHANGED <<selVars, issueVars, testVars, sumVars, prVars, chatVars, conv>>

InitK6 ==
    /\ IdleSelector /\ IdleAnalyzer /\ IdleTests /\ IdleSummary /\ IdlePriority /\ IdleChat
    /\ IdleK6

NextK6 ==
    \/ CallSimulateConversation \/ ConversationMessage \/ ConversationFollowUp
    \/ SingleMessage

SpecK6 == InitK6 /\ [][NextK6]_vars

\* ---- the messages of a conversation and the custom metrics ----

C15_SameSession ==
    \A k \in 1..Len(conv.sent) : conv.sent[k].sessionId = conv.sessionId

\* C15: simulateConversation sends between 1 and 4 messages per conversation,
\* all with the session id it was given.
C15_OneToFour ==
    conv.pc # "none" =>
        /\ Len(conv.sent) <= 4
        /\ conv.pc = "done" => Len(conv.sent) >= 1
        /\ C15_SameSession

C18_ThreeSeconds == 3000
C18_TenSeconds == 10000

C18_Passed(r) ==
    /\ r.status \in {200, 201}
    /\ r.body # ""
    /\ r.duration < C18_ThreeSeconds

C18_Inv ==
    /\ metrics.response_time = metrics.http_reqs
    /\ metrics.errors.samples = metrics.http_reqs
    /\ metrics.chatbot_responses + metrics.errors.ones = metrics.http_reqs
    /\ metrics.timeouts <= metrics.errors.ones

C18_Call ==
    metrics'.http_reqs = metrics.http_reqs + 1 =>
        /\ metrics'.response_time = metrics.response_time + 1
        /\ metrics'.errors.samples = metrics.errors.samples + 1
        /\ IF C18_Passed(response')
           THEN /\ metrics'.chatbot_responses = metrics.chatbot_responses + 1
                /\ metrics'.errors.ones = metrics.errors.ones
           ELSE /\ metrics'.chatbot_responses = metrics.chatbot_responses
                /\ metrics'.errors.ones = metrics.errors.ones + 1
        /\ IF response'.duration > C18_TenSeconds
           THEN /\ metrics'.timeouts = metrics.timeouts + 1
                /\ metrics'.errors.ones = metrics.errors.ones + 1
                /\ metrics'.chatbot_responses = metrics.chatbot_responses
           ELSE metrics'.timeouts = metrics.timeouts

\* C18: every simulateChatbotAPI call adds one sample to response_time and one
\* to errors; it adds 1 to chatbot_responses and the value 0 to errors when the
\* status is 200 or 201, the body is not empty and the duration is under 3 s,
\* and the value 1 to errors otherwise; a call counted in timeouts (duration
\* over 10 s) is an error and no chatbot response. So after any number of calls
\* the samples of both metrics equal the calls, chatbot_responses and the
\* errors add up to the calls, and timeouts does not exceed the errors.
C18_MetricsConsistent == []C18_Inv /\ [][C18_Call]_vars

\* after several calls: a chatbot response, a timeout and an error that is no
\* timeout have been counted
C18_Witness ==
    /\ metrics.http_reqs >= 3
    /\ metrics.chatbot_responses >= 1
    /\ metrics.timeouts >= 1
    /\ metrics.errors.ones > metrics.timeouts
    /\ response.status = 200 /\ response.body = "" /\ response.duration = 1000

====
